---- MODULE Spec2Model ----
(***************************************************************************)
(* Model of raw/preprocessing.py: the Chicago pipeline (process_chicago),  *)
(* the Santa Clara stub (process_santa_clara), the shared helper           *)
(* point_to_coords and the module-level execution.                         *)
(*                                                                         *)
(* A Python str is a sequence of one-character strings, a source file is   *)
(* a sequence of lines, a dict is a function over its key set.  A Python   *)
(* float is the exact fraction <<num, den>> in lowest terms (den > 0);     *)
(* the lat, lon and adi slots of a record always hold such a fraction      *)
(* (the integer 0 they start with is <<0, 1>>), the pop and vacc slots an  *)
(* integer.  List index k of the source is index k+1 here.                 *)
(***************************************************************************)
EXTENDS Integers, Sequences, FiniteSets, TLC

VARIABLES src, missing, pc, ln, pop, adi, out, err

vars == <<src, missing, pc, ln, pop, adi, out, err>>

\* Total number of lines over the three source files of a run.
MaxLines == 3

-----------------------------------------------------------------------------
(* Python built-ins used by the module *)

DigitChars == <<"0", "1", "2", "3", "4", "5", "6", "7", "8", "9">>

\* str.isdigit() of a one-character string (the ASCII digits; the source
\* files hold no other digit characters)
isdigit(c) == \E k \in 1..Len(DigitChars) : DigitChars[k] = c

DigitVal(c) == (CHOOSE k \in 1..Len(DigitChars) : DigitChars[k] = c) - 1

Whitespace == {" ", "\n", "\t", "\r"}

\* str.strip(), which int() and float() apply to their argument
RECURSIVE strip(_)
strip(str) ==
    IF str = <<>> THEN <<>>
    ELSE IF Head(str) \in Whitespace THEN strip(Tail(str))
    ELSE IF str[Len(str)] \in Whitespace THEN strip(SubSeq(str, 1, Len(str) - 1))
    ELSE str

\* value of a string of decimal digits
RECURSIVE DigitsValue(_)
DigitsValue(d) ==
    IF d = <<>> THEN 0
    ELSE 10 * DigitsValue(SubSeq(d, 1, Len(d) - 1)) + DigitVal(d[Len(d)])

AllDigits(d) == \A k \in 1..Len(d) : isdigit(d[k])

\* int(str): [ok |-> TRUE, val |-> n], or ok = FALSE for a ValueError
int(str) ==
    LET t    == strip(str)
        neg  == t # <<>> /\ Head(t) = "-"
        sgn  == t # <<>> /\ Head(t) \in {"-", "+"}
        body == IF sgn THEN Tail(t) ELSE t
    IN  IF body # <<>> /\ AllDigits(body)
        THEN [ok |-> TRUE, val |-> IF neg THEN 0 - DigitsValue(body) ELSE DigitsValue(body)]
        ELSE [ok |-> FALSE, val |-> 0]

\* str.split(sep) for a one-character separator
RECURSIVE split(_, _)
split(str, sep) ==
    IF \A k \in 1..Len(str) : str[k] # sep THEN <<str>>
    ELSE LET k == CHOOSE j \in 1..Len(str) :
                      str[j] = sep /\ \A h \in 1..(j - 1) : str[h] # sep
         IN  <<SubSeq(str, 1, k - 1)>> \o split(SubSeq(str, k + 1, Len(str)), sep)

\* str.replace(old, '') for a one-character old
replace(str, old) == SelectSeq(str, LAMBDA c : c # old)

\* the character class [-.\d]
NumChar(c) == isdigit(c) \/ c \in {"-", "."}

\* re.findall("[-.\d]+", str): the maximal runs of [-.\d] characters, in order
RECURSIVE findall(_)
findall(str) ==
    IF str = <<>> THEN <<>>
    ELSE IF ~NumChar(Head(str)) THEN findall(Tail(str))
    ELSE LET n == CHOOSE m \in 1..Len(str) :
                      /\ \A j \in 1..m : NumChar(str[j])
                      /\ (m = Len(str) \/ ~NumChar(str[m + 1]))
         IN  <<SubSeq(str, 1, n)>> \o findall(SubSeq(str, n + 1, Len(str)))

Abs(n) == IF n < 0 THEN 0 - n ELSE n

RECURSIVE GCD(_, _)
GCD(a, b) == IF b = 0 THEN a ELSE GCD(b, a % b)

RECURSIVE Pow10(_)
Pow10(n) == IF n = 0 THEN 1 ELSE 10 * Pow10(n - 1)

\* the float n/d (d > 0) as a fraction in lowest terms
Frac(n, d) == LET g == GCD(Abs(n), d) IN <<n \div g, d \div g>>

\* a / b of two ints with b > 0 (true division)
truediv(a, b) == Frac(a, b)

\* float(str) of a string of [-.\d] characters: an optional sign, digits with
\* at most one point, at least one digit; anything else is a ValueError
float(str) ==
    LET t     == strip(str)
        neg   == t # <<>> /\ Head(t) = "-"
        body  == IF neg THEN Tail(t) ELSE t
        parts == split(body, ".")
        whole == parts[1]
        frac  == IF Len(parts) = 2 THEN parts[2] ELSE <<>>
        valid == /\ Len(parts) <= 2
                 /\ AllDigits(whole) /\ AllDigits(frac)
                 /\ Len(whole) + Len(frac) > 0
        mag   == DigitsValue(whole \o frac)
    IN  IF valid
        THEN [ok |-> TRUE, val |-> Frac(IF neg THEN 0 - mag ELSE mag, Pow10(Len(frac)))]
        ELSE [ok |-> FALSE, val |-> <<0, 1>>]

\* the assignment of line 85 without the max: the last count wins
max_last(a, b) == b

\* max(a, b) of two ints
max(a, b) == IF b > a THEN b ELSE a

\* sorted(S, reverse=True)
RECURSIVE sorted_descending(_)
sorted_descending(S) ==
    IF S = {} THEN <<>>
    ELSE LET m == CHOOSE x \in S : \A y \in S : y <= x
         IN  <<m>> \o sorted_descending(S \ {m})

\* sorted(S) of a set of ints
RECURSIVE sorted(_)
sorted(S) ==
    IF S = {} THEN <<>>
    ELSE LET m == CHOOSE x \in S : \A y \in S : x <= y
         IN  <<m>> \o sorted(S \ {m})

-----------------------------------------------------------------------------
(* Global constants *)

POP_HEADER == <<"id", "name", "lat", "lon", "pop", "vacc", "adi">>

FAC_HEADER == <<"id", "name", "lat", "lon", "cap">>

-----------------------------------------------------------------------------
(* Common functions *)

\* point_to_coords returning (float(s[0]), float(s[1]))
point_to_coords_swapped(point) ==
    LET s == findall(point)
    IN  IF Len(s) < 2 THEN [err |-> "IndexError", val |-> <<>>]
        ELSE IF ~float(s[2]).ok \/ ~float(s[1]).ok
             THEN [err |-> "ValueError", val |-> <<>>]
        ELSE [err |-> "", val |-> <<float(s[1]).val, float(s[2]).val>>]

\* point_to_coords(point): [err |-> "", val |-> <<lat, lon>>], or the name of
\* the exception it raises
point_to_coords(point) ==
    LET s == findall(point)
    IN  IF Len(s) < 2 THEN [err |-> "IndexError", val |-> <<>>]
        ELSE IF ~float(s[2]).ok \/ ~float(s[1]).ok
             THEN [err |-> "ValueError", val |-> <<>>]
        ELSE [err |-> "", val |-> <<float(s[2]).val, float(s[1]).val>>]

-----------------------------------------------------------------------------
(* Source files: the lines a run may find in chicago/*.csv *)

\* ','.join(fields)
RECURSIVE Join(_)
Join(fields) ==
    IF Len(fields) = 1 THEN fields[1]
    ELSE fields[1] \o <<",">> \o Join(Tail(fields))

Filler(n) == [k \in 1..n |-> <<>>]

Quoted(str) == <<"\"">> \o str \o <<"\"">>

ZipA == <<"6", "0", "6", "0", "1">>
ZipB == <<"6", "0", "6", "0", "2">>
ZipC == <<"6", "0", "6", "0", "3">>

\* a row of COVID-19_Cases__Tests__and_Deaths_by_ZIP_Code.csv: the ZIP code,
\* columns 1..17, the count of column 18, the row id, the geometry
CaseRow(zip, count, point) ==
    Join(<<zip>> \o Filler(17) \o <<count, zip, point \o <<"\n">> >>)

\* a row of COVID-19_Vaccinations_by_ZIP_Code.csv: the ZIP code, columns
\* 1..3, the doses of column 4, one more column
VaccRow(zip, doses) ==
    Join(<<zip>> \o Filler(3) \o <<doses, <<"\n">> >>)

\* a row of the 9-digit ADI table: the quoted ZIP+4, columns 1..3, the quoted
\* ranking of column 4, one more column
AdiRow(zip9, rank) ==
    Join(<<Quoted(zip9)>> \o Filler(3) \o <<Quoted(rank), <<"\n">> >>)

PointW == <<"P", "O", "I", "N", "T", " ", "(", "-", "8", ".", "5", " ", "4", ".", "1", ")">>
PointE == <<"P", "O", "I", "N", "T", " ", "(", "-", "8", ".", "7", "5", " ", "4", "2", ")">>
PointEmpty == <<"P", "O", "I", "N", "T", " ", "E", "M", "P", "T", "Y">>

CaseHeader == <<"Z", "I", "P", " ", "C", "o", "d", "e", ",", "W", "e", "e", "k", "\n">>

CaseLines ==
    { CaseHeader,
      CaseRow(ZipA, <<"1", "8">>, PointW),
      CaseRow(ZipA, <<"2", "5">>, PointE),
      CaseRow(ZipB, <<"7">>, PointE),
      CaseRow(ZipB, <<"-", "3">>, PointW),
      CaseRow(ZipB, <<"9">>, PointEmpty) }

VaccHeader == <<"Z", "i", "p", " ", "C", "o", "d", "e", ",", "D", "a", "t", "e", "\n">>

VaccLines ==
    { VaccHeader,
      VaccRow(ZipA, <<"1", "5", "0">>),
      VaccRow(ZipA, <<>>),
      VaccRow(ZipB, <<"3", "0">>),
      VaccRow(ZipC, <<"1", "0">>),
      VaccRow(ZipC, <<>>) }

AdiHeader == Join(<<Quoted(<<"Z", "I", "P", "_", "4">>), Quoted(<<"A", "D", "I">>), <<"\n">> >>)

AdiLines ==
    { AdiHeader,
      AdiRow(ZipA \o <<"1", "2", "3", "4">>, <<"4", "0">>),
      AdiRow(ZipA \o <<"5", "6", "7", "8">>, <<"7", "1">>),
      AdiRow(ZipA \o <<"9", "9", "9", "9">>, <<"P", "H">>),
      AdiRow(ZipB \o <<"0", "0", "0", "1">>, <<"5", "5">>),
      AdiRow(ZipC \o <<"0", "0", "0", "1">>, <<"1", "0">>) }

\* every sequence over S of length at most n
SeqsUpTo(S, n) == UNION { [1..k -> S] : k \in 0..n }

case_file == "chicago/COVID-19_Cases__Tests__and_Deaths_by_ZIP_Code.csv"
vacc_file == "chicago/COVID-19_Vaccinations_by_ZIP_Code.csv"
adi_file == "chicago/IL_2020_ADI_9 Digit Zip Code_v3.2.csv"

Sources == {case_file, vacc_file, adi_file}

chicago_pop == "chicago_pop.tsv"
chicago_fac == "chicago_fac.tsv"
santa_clara_pop == "santa_clara_pop.tsv"
santa_clara_fac == "santa_clara_fac.tsv"

Outputs == {chicago_pop, chicago_fac, santa_clara_pop, santa_clara_fac}

\* an output file no run has opened yet
Untouched == [opened |-> FALSE, header |-> <<>>, rows |-> <<>>]

-----------------------------------------------------------------------------
(* State after the module's definitions are loaded, before line 191 runs:  *)
(* src is the content of the source files, missing the source files that   *)
(* do not exist, out the output files, pop and adi the two dicts of        *)
(* process_chicago, ln the number of lines consumed from the file being    *)
(* read, err the exception that ended the run ("" while there is none), pc   *)
(* the statement the execution has reached.                                *)

Init ==
    /\ missing \in {M \in SUBSET Sources : Cardinality(M) <= 1}
    /\ \E c \in SeqsUpTo(CaseLines, MaxLines) :
       \E v \in SeqsUpTo(VaccLines, MaxLines - Len(c)) :
       \E a \in SeqsUpTo(AdiLines, MaxLines - Len(c) - Len(v)) :
          /\ case_file \in missing => c = <<>>
          /\ vacc_file \in missing => v = <<>>
          /\ adi_file \in missing => a = <<>>
          /\ src = (case_file :> c) @@ (vacc_file :> v) @@ (adi_file :> a)
    /\ pc = "process_chicago"
    /\ ln = 0
    /\ pop = <<>>
    /\ adi = <<>>
    /\ out = [f \in Outputs |-> Untouched]
    /\ err = ""

-----------------------------------------------------------------------------
(* One iteration of each of the three reading loops, as a function of the  *)
(* dicts and the line: the dicts after the iteration and the exception     *)
(* that escapes it ("" when none does).                                    *)

\* dict d with d[k][i] set to x
SetItem(d, k, i, x) == [d EXCEPT ![k] = [@ EXCEPT ![i] = x]]

\* lines 72-85, for one line of the case file
CaseStep(p, line) ==
    IF ~isdigit(line[1]) THEN [pop |-> p, err |-> ""]
    ELSE
    LET s  == split(line, ",")
        zc == int(s[1])
        p1 == IF zc.val \in DOMAIN p THEN p
              ELSE [k \in DOMAIN p \cup {zc.val} |->
                       IF k \in DOMAIN p THEN p[k] ELSE <<<<0, 1>>, <<0, 1>>, 0, 0, <<0, 1>> >>]
        ll == point_to_coords(s[Len(s)])
        p2 == SetItem(SetItem(p1, zc.val, 1, ll.val[1]), zc.val, 2, ll.val[2])
        n  == int(s[19])
    IN  IF ~zc.ok THEN [pop |-> p, err |-> "ValueError"]
        ELSE IF ll.err # "" THEN [pop |-> p1, err |-> ll.err]
        ELSE IF Len(s) < 19 THEN [pop |-> p2, err |-> "IndexError"]
        ELSE IF ~n.ok THEN [pop |-> p2, err |-> "ValueError"]
        ELSE [pop |-> SetItem(p2, zc.val, 3, max(p2[zc.val][3], n.val)), err |-> ""]

\* lines 92-103 with pop.setdefault(zc, ...) in place of pop[zc]: a code the
\* case source does not have gets a record
VaccStep_insert(p, line) ==
    IF ~isdigit(line[1]) THEN [pop |-> p, err |-> ""]
    ELSE
    LET s  == split(line, ",")
        zc == int(s[1])
        n  == int(s[5])
        p1 == IF zc.val \in DOMAIN p THEN p
              ELSE [k \in DOMAIN p \cup {zc.val} |->
                       IF k \in DOMAIN p THEN p[k] ELSE <<<<0, 1>>, <<0, 1>>, 0, 0, <<0, 1>> >>]
    IN  IF ~zc.ok THEN [pop |-> p, err |-> "ValueError"]
        ELSE IF Len(s) < 5 THEN [pop |-> p1, err |-> "IndexError"]
        ELSE IF ~n.ok THEN [pop |-> p1, err |-> ""]
        ELSE [pop |-> SetItem(p1, zc.val, 4, p1[zc.val][4] + n.val), err |-> ""]

\* lines 92-103 with = in place of += on line 101
VaccStep_assign(p, line) ==
    IF ~isdigit(line[1]) THEN [pop |-> p, err |-> ""]
    ELSE
    LET s  == split(line, ",")
        zc == int(s[1])
        n  == int(s[5])
    IN  IF ~zc.ok THEN [pop |-> p, err |-> "ValueError"]
        ELSE IF zc.val \notin DOMAIN p THEN [pop |-> p, err |-> "KeyError"]
        ELSE IF Len(s) < 5 THEN [pop |-> p, err |-> "IndexError"]
        ELSE IF ~n.ok THEN [pop |-> p, err |-> ""]
        ELSE [pop |-> SetItem(p, zc.val, 4, n.val), err |-> ""]

\* lines 92-103 with the guard of lines 121-122 added: unknown codes skipped
VaccStep_filtered(p, line) ==
    IF ~isdigit(line[1]) THEN [pop |-> p, err |-> ""]
    ELSE
    LET s  == split(line, ",")
        zc == int(s[1])
        n  == int(s[5])
    IN  IF ~zc.ok THEN [pop |-> p, err |-> "ValueError"]
        ELSE IF zc.val \notin DOMAIN p THEN [pop |-> p, err |-> ""]
        ELSE IF Len(s) < 5 THEN [pop |-> p, err |-> "IndexError"]
        ELSE IF ~n.ok THEN [pop |-> p, err |-> ""]
        ELSE [pop |-> SetItem(p, zc.val, 4, p[zc.val][4] + n.val), err |-> ""]

\* lines 92-103, for one line of the vaccination file
VaccStep(p, line) ==
    IF ~isdigit(line[1]) THEN [pop |-> p, err |-> ""]
    ELSE
    LET s  == split(line, ",")
        zc == int(s[1])
        n  == int(s[5])
    IN  IF ~zc.ok THEN [pop |-> p, err |-> "ValueError"]
        ELSE IF zc.val \notin DOMAIN p THEN [pop |-> p, err |-> "KeyError"]
        ELSE IF Len(s) < 5 THEN [pop |-> p, err |-> "IndexError"]
        ELSE IF ~n.ok THEN [pop |-> p, err |-> ""]
        ELSE [pop |-> SetItem(p, zc.val, 4, p[zc.val][4] + n.val), err |-> ""]

\* lines 113-129 with line 127 moved out of the try: every row of a known
\* code is counted, numeric or not
AdiStep_count_all(p, a, line) ==
    LET s  == split(replace(line, "\""), ",")
        zc == int(SubSeq(s[1], 1, IF Len(s[1]) < 5 THEN Len(s[1]) ELSE 5))
        n  == int(s[5])
    IN  IF s[1] = <<>> THEN [adi |-> a, err |-> "IndexError"]
        ELSE IF ~isdigit(s[1][1]) THEN [adi |-> a, err |-> ""]
        ELSE IF ~zc.ok THEN [adi |-> a, err |-> "ValueError"]
        ELSE IF zc.val \notin DOMAIN p THEN [adi |-> a, err |-> ""]
        ELSE IF Len(s) < 5 THEN [adi |-> a, err |-> "IndexError"]
        ELSE IF ~n.ok THEN [adi |-> SetItem(a, zc.val, 2, a[zc.val][2] + 1), err |-> ""]
        ELSE [adi |-> SetItem(SetItem(a, zc.val, 1, a[zc.val][1] + n.val),
                              zc.val, 2, a[zc.val][2] + 1),
              err |-> ""]

\* lines 113-129, for one line of the ADI file; a is the dict adi
AdiStep(p, a, line) ==
    LET s  == split(replace(line, "\""), ",")
        zc == int(SubSeq(s[1], 1, IF Len(s[1]) < 5 THEN Len(s[1]) ELSE 5))
        n  == int(s[5])
    IN  IF s[1] = <<>> THEN [adi |-> a, err |-> "IndexError"]
        ELSE IF ~isdigit(s[1][1]) THEN [adi |-> a, err |-> ""]
        ELSE IF ~zc.ok THEN [adi |-> a, err |-> "ValueError"]
        ELSE IF zc.val \notin DOMAIN p THEN [adi |-> a, err |-> ""]
        ELSE IF Len(s) < 5 THEN [adi |-> a, err |-> "IndexError"]
        ELSE IF ~n.ok THEN [adi |-> a, err |-> ""]
        ELSE [adi |-> SetItem(SetItem(a, zc.val, 1, a[zc.val][1] + n.val),
                              zc.val, 2, a[zc.val][2] + 1),
              err |-> ""]

\* lines 132-134: the mean of each code that has a positive count
AdiAverage(p, a) ==
    [zc \in DOMAIN p |->
        IF a[zc][2] > 0 THEN [p[zc] EXCEPT ![5] = truediv(a[zc][1], a[zc][2])]
        ELSE p[zc]]

\* lines 139-144: the data rows of the population file, one per key of pop
PopRows(p) ==
    LET sk == sorted(DOMAIN p)
    IN  [i \in 1..Len(sk) |-> <<i - 1, sk[i]>> \o p[sk[i]]]

-----------------------------------------------------------------------------
(* Steps of the execution *)

\* an exception nothing catches: the interpreter exits where it stands, so pc
\* stays at the step that raised and no step is taken once err is set
Raise(e) == pc' = pc /\ err' = e

Running == err = ""

\* open(name, 'r') in a with statement
CanOpen(name) == name \notin missing

\* lines 57-68 with the population file opened for writing before the case
\* file is read
OpenCase_output_first ==
    /\ Running /\ pc = "process_chicago"
    /\ out' = [out EXCEPT ![chicago_pop] =
                  [opened |-> TRUE, header |-> POP_HEADER, rows |-> <<>>]]
    /\ IF CanOpen(case_file)
       THEN pc' = "case" /\ err' = err
       ELSE Raise("FileNotFoundError")
    /\ UNCHANGED <<src, missing, ln, pop, adi>>

\* lines 57-68: process_chicago() is called and opens the case file
OpenCase ==
    /\ Running /\ pc = "process_chicago"
    /\ IF CanOpen(case_file)
       THEN pc' = "case" /\ err' = err
       ELSE Raise("FileNotFoundError")
    /\ UNCHANGED <<src, missing, ln, pop, adi, out>>

\* lines 70-85: one iteration of the loop over the case file
ReadCaseLine ==
    /\ Running /\ pc = "case" /\ ln < Len(src[case_file])
    /\ LET r == CaseStep(pop, src[case_file][ln + 1])
       IN  /\ pop' = r.pop
           /\ IF r.err = ""
              THEN ln' = ln + 1 /\ pc' = pc /\ err' = err
              ELSE ln' = ln /\ Raise(r.err)
    /\ UNCHANGED <<src, missing, adi, out>>

\* line 88: the case file is exhausted, the vaccination file is opened
OpenVacc ==
    /\ Running /\ pc = "case" /\ ln = Len(src[case_file])
    /\ IF CanOpen(vacc_file)
       THEN pc' = "vacc" /\ ln' = 0 /\ err' = err
       ELSE Raise("FileNotFoundError") /\ ln' = ln
    /\ UNCHANGED <<src, missing, pop, adi, out>>

\* lines 90-103: one iteration of the loop over the vaccination file
ReadVaccLine ==
    /\ Running /\ pc = "vacc" /\ ln < Len(src[vacc_file])
    /\ LET r == VaccStep(pop, src[vacc_file][ln + 1])
       IN  /\ pop' = r.pop
           /\ IF r.err = ""
              THEN ln' = ln + 1 /\ pc' = pc /\ err' = err
              ELSE ln' = ln /\ Raise(r.err)
    /\ UNCHANGED <<src, missing, adi, out>>

\* lines 106-109: the vaccination file is exhausted, the ADI file is opened
\* and the dict adi gets a [0, 0] tally for every key of pop
OpenAdi ==
    /\ Running /\ pc = "vacc" /\ ln = Len(src[vacc_file])
    /\ IF CanOpen(adi_file)
       THEN /\ pc' = "adi" /\ ln' = 0 /\ err' = err
            /\ adi' = [zc \in DOMAIN pop |-> <<0, 0>>]
       ELSE Raise("FileNotFoundError") /\ ln' = ln /\ adi' = adi
    /\ UNCHANGED <<src, missing, pop, out>>

\* lines 111-129: one iteration of the loop over the ADI file
ReadAdiLine ==
    /\ Running /\ pc = "adi" /\ ln < Len(src[adi_file])
    /\ LET r == AdiStep(pop, adi, src[adi_file][ln + 1])
       IN  /\ adi' = r.adi
           /\ IF r.err = ""
              THEN ln' = ln + 1 /\ pc' = pc /\ err' = err
              ELSE ln' = ln /\ Raise(r.err)
    /\ UNCHANGED <<src, missing, pop, out>>

\* lines 131-134: the ADI file is exhausted, the means are stored
AverageAdi ==
    /\ Running /\ pc = "adi" /\ ln = Len(src[adi_file])
    /\ pop' = AdiAverage(pop, adi)
    /\ pc' = "write_pop"
    /\ UNCHANGED <<src, missing, ln, adi, out, err>>

\* lines 137-144: the population file is opened for writing and written
WritePop ==
    /\ Running /\ pc = "write_pop"
    /\ out' = [out EXCEPT ![chicago_pop] =
                  [opened |-> TRUE, header |-> POP_HEADER, rows |-> PopRows(pop)]]
    /\ pc' = "write_fac"
    /\ UNCHANGED <<src, missing, ln, pop, adi, err>>

\* lines 147-151 with line 192 commented out: the execution ends when
\* process_chicago returns
WriteFac_then_exit ==
    /\ Running /\ pc = "write_fac"
    /\ out' = [out EXCEPT ![chicago_fac] =
                  [opened |-> TRUE, header |-> FAC_HEADER, rows |-> <<>>]]
    /\ pc' = "exit"
    /\ UNCHANGED <<src, missing, ln, pop, adi, err>>

\* lines 147-151: the facility file is written and process_chicago returns
WriteFac ==
    /\ Running /\ pc = "write_fac"
    /\ out' = [out EXCEPT ![chicago_fac] =
                  [opened |-> TRUE, header |-> FAC_HEADER, rows |-> <<>>]]
    /\ pc' = "process_santa_clara"
    /\ UNCHANGED <<src, missing, ln, pop, adi, err>>

\* lines 167-178: process_santa_clara() is called and writes its population file
SantaClaraWritePop ==
    /\ Running /\ pc = "process_santa_clara"
    /\ out' = [out EXCEPT ![santa_clara_pop] =
                  [opened |-> TRUE, header |-> POP_HEADER, rows |-> <<>>]]
    /\ pc' = "santa_clara_fac"
    /\ UNCHANGED <<src, missing, ln, pop, adi, err>>

\* lines 182-183: process_santa_clara writes its facility file and returns
SantaClaraWriteFac ==
    /\ Running /\ pc = "santa_clara_fac"
    /\ out' = [out EXCEPT ![santa_clara_fac] =
                  [opened |-> TRUE, header |-> FAC_HEADER, rows |-> <<>>]]
    /\ pc' = "exit"
    /\ UNCHANGED <<src, missing, ln, pop, adi, err>>

Next ==
    \/ OpenCase
    \/ ReadCaseLine
    \/ OpenVacc
    \/ ReadVaccLine
    \/ OpenAdi
    \/ ReadAdiLine
    \/ AverageAdi
    \/ WritePop
    \/ WriteFac
    \/ SantaClaraWritePop
    \/ SantaClaraWriteFac

Spec == Init /\ [][Next]_vars

-----------------------------------------------------------------------------
(* What the source files say, read declaratively from src *)

CaseFile == src[case_file]
VaccFile == src[vacc_file]
AdiFile == src[adi_file]

\* column k (0-based) of a comma-separated line
Col(line, k) == split(line, ",")[k + 1]

DigitLeading(line) == isdigit(line[1])

\* the indices of the case-source rows of code zc
CaseRowsOf(zc) ==
    {i \in 1..Len(CaseFile) : DigitLeading(CaseFile[i]) /\ int(Col(CaseFile[i], 0)).val = zc}

\* the codes of the digit-leading lines of the case source
CaseCodes ==
    {int(Col(CaseFile[i], 0)).val : i \in {j \in 1..Len(CaseFile) : DigitLeading(CaseFile[j])}}

\* the indices of the digit-leading vaccination rows of code zc
VaccRowsOf(zc) ==
    {i \in 1..Len(VaccFile) : DigitLeading(VaccFile[i]) /\ int(Col(VaccFile[i], 0)).val = zc}

\* the first field of an ADI line without its quotes, and its first 5 characters
SubCode(line) == replace(Col(line, 0), "\"")
Prefix5(str) == SubSeq(str, 1, IF Len(str) < 5 THEN Len(str) ELSE 5)

\* the indices of the ADI rows whose sub-code starts with the digits of zc
AdiRowsOf(zc) ==
    {i \in 1..Len(AdiFile) :
        /\ SubCode(AdiFile[i]) # <<>>
        /\ isdigit(SubCode(AdiFile[i])[1])
        /\ int(Prefix5(SubCode(AdiFile[i]))).val = zc}

\* the ADI value of row i, as int() reads it
AdiValue(i) == int(replace(Col(AdiFile[i], 4), "\""))

RECURSIVE SumOver(_, _)
SumOver(f, S) ==
    IF S = {} THEN 0
    ELSE LET x == CHOOSE y \in S : TRUE IN f[x] + SumOver(f, S \ {x})

MaxOf(S) == CHOOSE x \in S : \A y \in S : y <= x

\* the population file of the Chicago run and its data rows
PopWritten == out[chicago_pop].opened
Rows == out[chicago_pop].rows
RowCodes == {Rows[k][2] : k \in 1..Len(Rows)}

-----------------------------------------------------------------------------
(* Claims *)

\* C1: when process_chicago has written the population file, the postal codes
\* of its data rows are exactly the codes of the digit-leading lines of the
\* case source, and each such code has exactly one data row, however many
\* case, vaccination or ADI rows reference it.
C1_CodesExactlyOnce ==
    PopWritten =>
        /\ RowCodes = CaseCodes
        /\ \A zc \in CaseCodes : Cardinality({k \in 1..Len(Rows) : Rows[k][2] = zc}) = 1

\* a written file whose code is referenced by a case row, a vaccination row
\* and an ADI row
C1_Witness ==
    /\ PopWritten
    /\ \E zc \in CaseCodes : VaccRowsOf(zc) # {} /\ AdiRowsOf(zc) # {}

\* C2: the data rows of the population file are in strictly ascending order of
\* postal code and the id column of the k-th data row, counting from 0, is k.
C2_SortedDenseIds ==
    PopWritten =>
        /\ \A k \in 1..Len(Rows) : Rows[k][1] = k - 1
        /\ \A k \in 1..(Len(Rows) - 1) : Rows[k][2] < Rows[k + 1][2]
        /\ Len(Rows) = Cardinality(CaseCodes)

\* two codes written, the larger one first in the case source
C2_Witness ==
    /\ PopWritten
    /\ Len(Rows) = 2
    /\ \E i, j \in 1..Len(CaseFile) :
          /\ i < j /\ DigitLeading(CaseFile[i]) /\ DigitLeading(CaseFile[j])
          /\ int(Col(CaseFile[i], 0)).val > int(Col(CaseFile[j], 0)).val

\* the column-18 values of the case-source rows of code zc
CountsOf(zc) == {int(Col(CaseFile[i], 18)).val : i \in CaseRowsOf(zc)}

\* the case source with its lines permuted by f
Permuted(f) == [i \in 1..Len(CaseFile) |-> CaseFile[f[i]]]

\* the dict pop after the loop of lines 70-85 has read a whole file
RECURSIVE RunCase(_)
RunCase(file) ==
    IF file = <<>> THEN <<>>
    ELSE CaseStep(RunCase(SubSeq(file, 1, Len(file) - 1)), file[Len(file)]).pop

\* C3 as stated: for every postal code in the output, pop equals the maximum
\* of all column-18 values of the case-source rows for that code.
C3_PopIsMaxOfCounts ==
    PopWritten => \A k \in 1..Len(Rows) : Rows[k][5] = MaxOf(CountsOf(Rows[k][2]))

\* C3 as amended: for every postal code in the output, pop equals the maximum
\* of 0 and all column-18 values of the case-source rows for that code, and
\* this value is the same for every permutation of the case-source rows.
C3_PopIsMaxOfZeroAndCounts ==
    PopWritten =>
        \A k \in 1..Len(Rows) :
            /\ Rows[k][5] = MaxOf({0} \cup CountsOf(Rows[k][2]))
            /\ \A f \in Permutations(1..Len(CaseFile)) :
                   RunCase(Permuted(f))[Rows[k][2]][3] = Rows[k][5]

\* a written code with two case rows, the larger count first
C3_Witness ==
    /\ PopWritten
    /\ \E k \in 1..Len(Rows) : \E i, j \in CaseRowsOf(Rows[k][2]) :
          /\ i < j
          /\ int(Col(CaseFile[i], 18)).val > int(Col(CaseFile[j], 18)).val
          /\ int(Col(CaseFile[j], 18)).val > 0

\* a vaccination line the loop is about to read: the line after the ln read so far
AtVaccLine == Running /\ pc = "vacc" /\ ln < Len(VaccFile)
VaccLine == VaccFile[ln + 1]

\* column 4 of a vaccination row of code zc, as int() reads it
Doses(i) == int(Col(VaccFile[i], 4))

ValidAdiRowsOf(zc) == {i \in AdiRowsOf(zc) : AdiValue(i).ok}

AtAdiLine == Running /\ pc = "adi" /\ ln < Len(AdiFile)

\* C5: for every postal code in the output, adi equals (sum of the valid
\* values)/(number of valid values) over the ADI rows whose sub-code starts
\* with the code's 5 digits and whose column 4 parses as an integer, and 0
\* when there is no such row; reading a row with a non-numeric column 4
\* changes neither a running sum nor a running count.
C5_AdiIsMeanOfValidValues ==
    /\ [](PopWritten =>
            \A k \in 1..Len(Rows) :
                LET V == ValidAdiRowsOf(Rows[k][2])
                    sum == SumOver([i \in 1..Len(AdiFile) |-> AdiValue(i).val], V)
                IN  Rows[k][7] = IF V = {} THEN <<0, 1>>
                                 ELSE <<sum \div GCD(sum, Cardinality(V)),
                                        Cardinality(V) \div GCD(sum, Cardinality(V))>>)
    /\ [][AtAdiLine /\ Len(split(AdiFile[ln + 1], ",")) >= 5 /\ ~AdiValue(ln + 1).ok
            => adi' = adi /\ pop' = pop /\ err' = ""]_vars

\* a written code with two valid ADI rows whose mean is no integer
C5_Witness ==
    /\ PopWritten
    /\ \E k \in 1..Len(Rows) :
          /\ Cardinality(ValidAdiRowsOf(Rows[k][2])) = 2
          /\ Rows[k][7][2] = 2

\* a line of the vaccination or ADI source about to be read whose code parses
\* and is not a key of pop
UnknownVaccRow ==
    /\ AtVaccLine /\ DigitLeading(VaccLine)
    /\ int(Col(VaccLine, 0)).ok /\ int(Col(VaccLine, 0)).val \notin DOMAIN pop

UnknownAdiRow ==
    /\ AtAdiLine /\ SubCode(AdiFile[ln + 1]) # <<>> /\ isdigit(SubCode(AdiFile[ln + 1])[1])
    /\ int(Prefix5(SubCode(AdiFile[ln + 1]))).ok
    /\ int(Prefix5(SubCode(AdiFile[ln + 1]))).val \notin DOMAIN pop

\* C6: a postal code absent from the case source is never introduced by
\* vaccination or ADI data: in both steps a row whose code is unknown is
\* skipped, changes no record and the run goes on to the next line.
C6_UnknownCodeRowsSkipped ==
    /\ [](DOMAIN pop \subseteq CaseCodes)
    /\ [][UnknownVaccRow \/ UnknownAdiRow
            => pop' = pop /\ adi' = adi /\ err' = "" /\ ln' = ln + 1]_vars

\* the geometries of the case source with the coordinates they denote
Geometries ==
    { [point |-> PointW, lon |-> <<0 - 17, 2>>, lat |-> <<41, 10>>],
      [point |-> PointE, lon |-> <<0 - 35, 4>>, lat |-> <<42, 1>>] }

\* the last column of a case row without its line end
GeometryOf(line) == LET s == split(line, ",") IN SubSeq(s[Len(s)], 1, Len(s[Len(s)]) - 1)

LastCaseRowOf(zc) == MaxOf(CaseRowsOf(zc))

\* C7: point_to_coords returns (LAT, LON) for "POINT (LON LAT)", and for every
\* postal code in the output the lat and lon columns are that pair taken from
\* the geometry of the last case-source row for that code in file order.
C7_CoordsOfLastCaseRow ==
    /\ \A g \in Geometries : point_to_coords(g.point).val = <<g.lat, g.lon>>
    /\ PopWritten =>
          \A k \in 1..Len(Rows) : \E g \in Geometries :
              /\ g.point = GeometryOf(CaseFile[LastCaseRowOf(Rows[k][2])])
              /\ Rows[k][3] = g.lat /\ Rows[k][4] = g.lon

\* a written code with two case rows of different geometries
C7_Witness ==
    /\ PopWritten
    /\ \E k \in 1..Len(Rows) : \E i, j \in CaseRowsOf(Rows[k][2]) :
          GeometryOf(CaseFile[i]) # GeometryOf(CaseFile[j])

\* C8: a digit-leading vaccination row whose postal code was not seen in the
\* case source ends the run with an uncaught KeyError, whether or not its
\* column 4 is numeric; a run whose vaccination source has such a row never
\* reaches the ADI step, and no step follows an uncaught exception.
C8_UnknownVaccCodeIsFatal ==
    /\ [][Running /\ (UnknownVaccRow => err' = "KeyError" /\ pc' = "vacc" /\ pop' = pop)]_vars
    /\ []((\E i \in 1..Len(VaccFile) :
              /\ DigitLeading(VaccFile[i]) /\ int(Col(VaccFile[i], 0)).ok
              /\ int(Col(VaccFile[i], 0)).val \notin CaseCodes)
            => pc \in {"process_chicago", "case", "vacc"})

\* the run has ended on a vaccination row of unknown code whose column 4 is
\* not numeric
C8_Witness ==
    /\ pc = "vacc" /\ err = "KeyError" /\ ln < Len(VaccFile)
    /\ ~int(Col(VaccLine, 4)).ok

\* the guards of the steps: the statement reached can be executed
CanStep ==
    \/ pc \in {"process_chicago", "write_pop", "write_fac", "process_santa_clara", "santa_clara_fac"}
    \/ pc = "case" /\ ln <= Len(CaseFile)
    \/ pc = "vacc" /\ ln <= Len(VaccFile)
    \/ pc = "adi" /\ ln <= Len(AdiFile)

Ingesting == pc \in {"process_chicago", "case", "vacc", "adi", "write_pop"}
ChicagoReturned == pc \in {"process_santa_clara", "santa_clara_fac", "exit"}

HeaderOnly(f, header) == out[f] = [opened |-> TRUE, header |-> header, rows |-> <<>>]

\* C9: a run either goes on, has completed, or has ended with an unhandled
\* error; once process_chicago has returned the population file is written in
\* full and the facility file holds only its header; neither output file is
\* opened before the three ingestion steps have finished, the facility file
\* not before the population file, and a run ended by an error during
\* ingestion has left both files untouched.
C9_OutputsOnlyAfterIngestion ==
    /\ (Running /\ pc # "exit") => CanStep
    /\ ChicagoReturned =>
          /\ out[chicago_pop] = [opened |-> TRUE, header |-> POP_HEADER, rows |-> PopRows(pop)]
          /\ Len(out[chicago_pop].rows) = Cardinality(CaseCodes)
          /\ HeaderOnly(chicago_fac, FAC_HEADER)
    /\ Ingesting => out[chicago_pop] = Untouched /\ out[chicago_fac] = Untouched
    /\ out[chicago_fac].opened => out[chicago_pop].opened
    /\ ~Running => Ingesting

\* a run ended by an error in the vaccination step after records were built
C9_Witness ==
    /\ ~Running /\ pc = "vacc" /\ DOMAIN pop # {}
    /\ out[chicago_pop] = Untouched /\ out[chicago_fac] = Untouched

Ended == ~Running \/ pc = "exit"

SantaClaraWritten ==
    HeaderOnly(santa_clara_pop, POP_HEADER) /\ HeaderOnly(santa_clara_fac, FAC_HEADER)

\* C10 as stated: every execution, however the Chicago pipeline ended, has
\* invoked process_santa_clara and written its two header-only files.
C10_SantaClaraAlwaysRuns == Ended => SantaClaraWritten

\* C10 as amended: the module calls process_chicago and then
\* process_santa_clara with no condition between them; an execution in which
\* process_chicago returns invokes process_santa_clara, which writes its
\* header-only population and facility files after both Chicago files, and an
\* execution in which process_chicago raises ends there with both Santa Clara
\* files untouched.
C10_SantaClaraRunsAfterChicagoReturns ==
    /\ pc = "exit" => SantaClaraWritten /\ out[chicago_pop].opened /\ out[chicago_fac].opened
    /\ ~Running => out[santa_clara_pop] = Untouched /\ out[santa_clara_fac] = Untouched
    /\ out[santa_clara_pop].opened => ChicagoReturned /\ out[chicago_fac].opened
    /\ out[santa_clara_fac].opened => out[santa_clara_pop].opened

\* an execution that has completed both pipelines with Chicago data rows
C10_Witness == pc = "exit" /\ SantaClaraWritten /\ Len(Rows) > 0

====
